---- MODULE Spec2Model ----
(***************************************************************************)
(* Model of generate_problem_file (src/generate_problem.py): the generator *)
(* of MSCFLP instances.  Nodes 0..locations-1 are service locations, nodes *)
(* locations..total_nodes-1 are demand points.                             *)
(*                                                                         *)
(* Geometry.  np.random.random() is drawn from the grid k/GridN, k in      *)
(* 0..GridN-1, and a coordinate is stored as the pair of its numerators.   *)
(* service_range_factor is factor/GridN.  distance() is kept squared       *)
(* (an integer in grid units), and the two comparisons of the code are     *)
(* evaluated exactly, without roots:                                       *)
(*   d <= service_range      <=>  d <= factor / locations^(1/3)            *)
(*                           <=>  (d^2)^3 * locations^2 <= factor^6        *)
(*   d <  minimum_distance   <=>  10 * d < factor / locations^(1/3)        *)
(*                           <=>  10^6 * (d^2)^3 * locations^2 < factor^6  *)
(* With Factors = {2, 13, 45} on the 3 x 3 grid:                           *)
(*   factor 2  (0.67): range reaches d^2 <= 4 (1 location), <= 2 (2);      *)
(*                     only coinciding points are too close                *)
(*   factor 13 (4.33): every pair is in range; neighbouring cells          *)
(*                     (d^2 = 1) are too close                             *)
(*   factor 45 (15.0): minimum_distance = 1.5 / locations^(1/3) exceeds    *)
(*                     the diagonal of the unit square when locations <= 1 *)
(***************************************************************************)
EXTENDS Integers, Sequences, FiniteSets

\* ---- bounds of the model
GridN == 3
MaxLocations == 2
MaxPoints == 4
MaxEdges == 4
MaxServices == 2

\* service_range_factor values tried, in grid units
Factors == {2, 13, 45}

Cells == (0 .. GridN - 1) \X (0 .. GridN - 1)

\* value of a local that holds nothing (None)
NoCoord == <<-1, -1>>

VARIABLES
  pc,                      \* position in generate_problem_file
  services, locations, points, factor,     \* the arguments
  coords,                  \* coords: node -> position (also G.node[n]['pos'])
  node_idx,                \* next node to place
  new_coord, too_close,    \* locals of the rejection loops
  G,                       \* the graph: G[n] lists the neighbours of n in the order
                           \* their edges were added (the adjacency dict of networkx)
  dem_idx, loc_idx,        \* loop indices of the repair and assignment loops
  service_requested, all_services_requested,
  random_pick,             \* history: service_requested was set by np.random.randint
  records,                 \* (services_list, locations_list, points_list) zipped
  sorted_data,             \* records after sort_values
  final_rows,              \* number of rows of final_data
  written,                 \* to_excel was called
  exit_status              \* <<>> while running, <<status>> once the process has ended

vars == <<pc, services, locations, points, factor, coords, node_idx, new_coord,
          too_close, G, dem_idx, loc_idx, service_requested,
          all_services_requested, random_pick, records, sorted_data,
          final_rows, written, exit_status>>

total_nodes == locations + points
Locs == 0 .. locations - 1
Dems == locations .. total_nodes - 1

\* ---- geometry --------------------------------------------------------------

\* distance(p0, p1), squared
distance2(p0, p1) ==
  (p1[1] - p0[1]) * (p1[1] - p0[1]) + (p1[2] - p0[2]) * (p1[2] - p0[2])

factor3 == factor * factor * factor

\* (d^2)^3 * locations^2, the left-hand side of both comparisons
Scaled(p0, p1) ==
  LET d2 == distance2(p0, p1) IN d2 * d2 * d2 * locations * locations

\* dstc <= service_range, with service_range = factor / locations ** (1/3):
\* a <= factor3^2, evaluated as ceil(a / factor3) <= factor3
InRange(p0, p1) ==
  (Scaled(p0, p1) + factor3 - 1) \div factor3 <= factor3

\* distance(c, new_coord) < minimum_distance, minimum_distance = 0.1 * service_range:
\* 10^6 * a < factor3^2.  With factor3 = 1000 * h + r this is
\* 10^6 * (a - h^2) < 2000 * h * r + r^2, evaluated within 32 bits
CloserThanMinimum(p0, p1) ==
  LET h == factor3 \div 1000
      r == factor3 % 1000
  IN  Scaled(p0, p1) - h * h <= (2000 * h * r + r * r - 1) \div 1000000

\* the for loop over coords.values(): some placed node is too close to c
TooCloseNever(c) == FALSE

TooCloseToSome(c) ==
  \E n \in DOMAIN coords : CloserThanMinimum(coords[n], c)

\* ---- graph -----------------------------------------------------------------

Elems(s) == {s[i] : i \in 1 .. Len(s)}

RECURSIVE Ascending(_)
Ascending(S) ==
  IF S = {} THEN <<>>
  ELSE LET m == CHOOSE x \in S : \A y \in S : x <= y
       IN  <<m>> \o Ascending(S \ {m})

\* G[n].keys(), as a set
Neighbours(g, n) == Elems(g[n])

\* len(G[n])
Degree(g, n) == Len(g[n])

\* G.edges()
Edges(g) == UNION {{{n, m} : m \in Elems(g[n])} : n \in DOMAIN g}

\* G.add_edge(u, v): a new edge goes to the end of both adjacency lists, an
\* edge that exists stays where it is
add_edge(g, u, v) ==
  IF v \in Elems(g[u]) THEN g
  ELSE [g EXCEPT ![u] = Append(@, v), ![v] = Append(@, u)]

\* add_edge(u, v) for each v of the sequence vs, in turn
RECURSIVE add_edges(_, _, _)
add_edges(g, u, vs) ==
  IF vs = <<>> THEN g ELSE add_edges(add_edge(g, u, Head(vs)), u, Tail(vs))

\* nx.random_geometric_graph(total_nodes, service_range, pos=coords): the pairs
\* (u, v), u < v, are visited in lexicographic order and joined when in range,
\* which leaves every adjacency list ascending
random_geometric_graph ==
  [n \in 0 .. total_nodes - 1 |->
     Ascending({m \in (0 .. total_nodes - 1) \ {n} : InRange(coords[n], coords[m])})]

NotLocation(m) == m \notin Locs

NotDemand(m) == m \notin Dems

\* lines 59-62: remove the edges between every two locations
remove_location_edges(g) ==
  [n \in DOMAIN g |-> IF n \in Locs THEN SelectSeq(g[n], NotLocation) ELSE g[n]]

\* lines 64-67: remove the edges between every two demand points
remove_demand_edges_none(g) == g

remove_demand_edges(g) ==
  [n \in DOMAIN g |-> IF n \in Dems THEN SelectSeq(g[n], NotDemand) ELSE g[n]]

\* while len(G[dem_idx]) == 0
DemIsolatedNever(d) == FALSE

DemIsolated(d) == Degree(G, d) = 0

\* while len(G[loc_idx]) == 0
LocIsolatedNever(l) == FALSE

LocIsolated(l) == Degree(G, l) = 0

\* lines 85-88: the graph once the relocated demand point d, now at c, is
\* joined to the locations in range, for loc_idx in range(locations)
DemandEdgesFirstOnly(d, c) ==
  LET near == Ascending({l \in Locs : InRange(coords[l], c)})
  IN  add_edges(G, d, IF near = <<>> THEN <<>> ELSE <<Head(near)>>)

DemandEdges(d, c) ==
  add_edges(G, d, Ascending({l \in Locs : InRange(coords[l], c)}))

\* lines 105-108: the graph once the relocated location l, now at c, is
\* joined to the demand points in range, for dem_idx in range(locations, total_nodes)
LocationEdges(l, c) ==
  add_edges(G, l, Ascending({d \in Dems : InRange(coords[d], c)}))

\* ---- service assignment ----------------------------------------------------

\* lines 142-147: one triple per location connected to demand point d, in the
\* order of G[dem_idx].keys()
PointRecordsCycling(d, sr) ==
  LET locs == G[d]
  IN  [i \in 1 .. Len(locs) |-> <<(sr + i - 1) % services, locs[i], d - locations>>]

PointRecords(d, sr) ==
  LET locs == G[d]
  IN  [i \in 1 .. Len(locs) |-> <<sr, locs[i], d - locations>>]

\* np.random.randint(n): the possible outcomes
randint_inclusive(n) == 0 .. n

randint(n) == 0 .. n - 1

\* ---- output ----------------------------------------------------------------

Before(a, b) ==
  \/ a[1] < b[1]
  \/ a[1] = b[1] /\ a[2] < b[2]
  \/ a[1] = b[1] /\ a[2] = b[2] /\ a[3] <= b[3]

RECURSIVE Insert(_, _)
Insert(r, s) ==
  IF s = <<>> THEN <<r>>
  ELSE IF Before(r, Head(s)) THEN <<r>> \o s
  ELSE <<Head(s)>> \o Insert(r, Tail(s))

\* data.sort_values(by=['service', 'location', 'point'])
RECURSIVE sort_values(_)
sort_values(s) ==
  IF s = <<>> THEN <<>> ELSE Insert(Head(s), sort_values(Tail(s)))

Max(a, b) == IF a >= b THEN a ELSE b

\* pd.concat([sorted_data, data_open, data_equip], axis=1): an outer join on
\* the row index, data_open has `locations` rows and data_equip `services`
concat_rows(n) == Max(n, Max(locations, services))

\* ---- the program -----------------------------------------------------------

Init ==
  /\ pc = "start"
  /\ services \in 1 .. MaxServices
  /\ locations \in 1 .. MaxLocations
  /\ points \in 1 .. MaxPoints
  /\ locations * points <= MaxEdges
  /\ factor \in Factors
  /\ coords = <<>>
  /\ node_idx = 0
  /\ new_coord = NoCoord
  /\ too_close = FALSE
  /\ G = <<>>
  /\ dem_idx = 0
  /\ loc_idx = 0
  /\ service_requested = 0
  /\ all_services_requested = FALSE
  /\ random_pick = FALSE
  /\ records = <<>>
  /\ sorted_data = <<>>
  /\ final_rows = 0
  /\ written = FALSE
  /\ exit_status = <<>>

\* lines 34-36: exit() raises SystemExit(None), the process ends with status 0
ConfigError ==
  /\ pc = "start"
  /\ services > points
  /\ pc' = "exited"
  /\ exit_status' = <<0>>
  /\ UNCHANGED <<services, locations, points, factor, coords, node_idx,
                 new_coord, too_close, G, dem_idx, loc_idx, service_requested,
                 all_services_requested, random_pick, records, sorted_data,
                 final_rows, written>>

\* lines 34, 40-44
Begin ==
  /\ pc = "start"
  /\ ~(services > points)
  /\ pc' = "sample"
  /\ UNCHANGED <<services, locations, points, factor, coords, node_idx,
                 new_coord, too_close, G, dem_idx, loc_idx, service_requested,
                 all_services_requested, random_pick, records, sorted_data,
                 final_rows, written, exit_status>>

\* lines 45-55: one iteration of the placement loop, drawing c
Sample(c) ==
  /\ pc = "sample"
  /\ node_idx < total_nodes
  /\ new_coord' = c
  /\ too_close' = TooCloseToSome(c)
  /\ IF too_close'
       THEN UNCHANGED <<coords, node_idx>>
       ELSE /\ coords' = [n \in 0 .. node_idx |->
                            IF n = node_idx THEN c ELSE coords[n]]
            /\ node_idx' = node_idx + 1
  /\ UNCHANGED <<pc, services, locations, points, factor, G, dem_idx, loc_idx,
                 service_requested, all_services_requested, random_pick,
                 records, sorted_data, final_rows, written, exit_status>>

\* lines 57-67: the geometric graph, stripped of the edges inside a class
BuildGraph ==
  /\ pc = "sample"
  /\ node_idx = total_nodes
  /\ G' = remove_demand_edges(remove_location_edges(random_geometric_graph))
  /\ dem_idx' = locations
  /\ pc' = "repair_dem"
  /\ UNCHANGED <<services, locations, points, factor, coords, node_idx,
                 new_coord, too_close, loc_idx, service_requested,
                 all_services_requested, random_pick, records, sorted_data,
                 final_rows, written, exit_status>>

\* lines 71-88: one draw of the repair of the isolated demand point dem_idx
RepairDemandDraw(c) ==
  /\ pc = "repair_dem"
  /\ dem_idx < total_nodes
  /\ DemIsolated(dem_idx)
  /\ new_coord' = c
  /\ too_close' = TooCloseToSome(c)
  /\ IF too_close'
       THEN UNCHANGED <<coords, G>>
       ELSE /\ coords' = [coords EXCEPT ![dem_idx] = c]
            /\ G' = DemandEdges(dem_idx, c)
  /\ UNCHANGED <<pc, services, locations, points, factor, node_idx, dem_idx,
                 loc_idx, service_requested, all_services_requested,
                 random_pick, records, sorted_data, final_rows, written,
                 exit_status>>

\* lines 69, 71: the demand point has a neighbour, on to the next one
RepairDemandNext ==
  /\ pc = "repair_dem"
  /\ dem_idx < total_nodes
  /\ ~DemIsolated(dem_idx)
  /\ dem_idx' = dem_idx + 1
  /\ UNCHANGED <<pc, services, locations, points, factor, coords, node_idx,
                 new_coord, too_close, G, loc_idx, service_requested,
                 all_services_requested, random_pick, records, sorted_data,
                 final_rows, written, exit_status>>

\* lines 69, 89: the first pass is over
RepairDemandDone ==
  /\ pc = "repair_dem"
  /\ dem_idx = total_nodes
  /\ loc_idx' = 0
  /\ pc' = "repair_loc"
  /\ UNCHANGED <<services, locations, points, factor, coords, node_idx,
                 new_coord, too_close, G, dem_idx, service_requested,
                 all_services_requested, random_pick, records, sorted_data,
                 final_rows, written, exit_status>>

\* lines 91-108: one draw of the repair of the isolated location loc_idx
RepairLocationDraw(c) ==
  /\ pc = "repair_loc"
  /\ loc_idx < locations
  /\ LocIsolated(loc_idx)
  /\ new_coord' = c
  /\ too_close' = TooCloseToSome(c)
  /\ IF too_close'
       THEN UNCHANGED <<coords, G>>
       ELSE /\ coords' = [coords EXCEPT ![loc_idx] = c]
            /\ G' = LocationEdges(loc_idx, c)
  /\ UNCHANGED <<pc, services, locations, points, factor, node_idx, dem_idx,
                 loc_idx, service_requested, all_services_requested,
                 random_pick, records, sorted_data, final_rows, written,
                 exit_status>>

\* lines 89, 91: the location has a neighbour, on to the next one
RepairLocationNext ==
  /\ pc = "repair_loc"
  /\ loc_idx < locations
  /\ ~LocIsolated(loc_idx)
  /\ loc_idx' = loc_idx + 1
  /\ UNCHANGED <<pc, services, locations, points, factor, coords, node_idx,
                 new_coord, too_close, G, dem_idx, service_requested,
                 all_services_requested, random_pick, records, sorted_data,
                 final_rows, written, exit_status>>

\* lines 109-141: both passes are over; the centrality report only prints
StartAssign ==
  /\ pc = "repair_loc"
  /\ loc_idx = locations
  /\ dem_idx' = locations
  /\ service_requested' = 0
  /\ all_services_requested' = FALSE
  /\ records' = <<>>
  /\ pc' = "assign"
  /\ UNCHANGED <<services, locations, points, factor, coords, node_idx,
                 new_coord, too_close, G, loc_idx, random_pick, sorted_data,
                 final_rows, written, exit_status>>

\* lines 141-152: one demand point, the ids are still handed out in turn
AssignInTurn ==
  /\ pc = "assign"
  /\ dem_idx < total_nodes
  /\ ~all_services_requested
  /\ records' = records \o PointRecords(dem_idx, service_requested)
  /\ IF service_requested = services - 1
       THEN /\ all_services_requested' = TRUE
            /\ UNCHANGED service_requested
       ELSE /\ service_requested' = service_requested + 1
            /\ UNCHANGED all_services_requested
  /\ dem_idx' = dem_idx + 1
  /\ UNCHANGED <<pc, services, locations, points, factor, coords, node_idx,
                 new_coord, too_close, G, loc_idx, random_pick, sorted_data,
                 final_rows, written, exit_status>>

\* lines 141-148, 153-154: one demand point, the next id is drawn
AssignRandom(r) ==
  /\ pc = "assign"
  /\ dem_idx < total_nodes
  /\ all_services_requested
  /\ r \in randint(services)
  /\ records' = records \o PointRecords(dem_idx, service_requested)
  /\ service_requested' = r
  /\ random_pick' = TRUE
  /\ dem_idx' = dem_idx + 1
  /\ UNCHANGED <<pc, services, locations, points, factor, coords, node_idx,
                 new_coord, too_close, G, loc_idx, all_services_requested,
                 sorted_data, final_rows, written, exit_status>>

\* lines 156-175: sort, attach the two cost columns, write the file
Output ==
  /\ pc = "assign"
  /\ dem_idx = total_nodes
  /\ sorted_data' = sort_values(records)
  /\ final_rows' = concat_rows(Len(records))
  /\ written' = TRUE
  /\ exit_status' = <<0>>
  /\ pc' = "done"
  /\ UNCHANGED <<services, locations, points, factor, coords, node_idx,
                 new_coord, too_close, G, dem_idx, loc_idx, service_requested,
                 all_services_requested, random_pick, records>>

Next ==
  \/ ConfigError
  \/ Begin
  \/ \E c \in Cells : Sample(c)
  \/ BuildGraph
  \/ \E c \in Cells : RepairDemandDraw(c)
  \/ RepairDemandNext
  \/ RepairDemandDone
  \/ \E c \in Cells : RepairLocationDraw(c)
  \/ RepairLocationNext
  \/ StartAssign
  \/ AssignInTurn
  \/ \E r \in 0 .. MaxServices : AssignRandom(r)
  \/ Output

Spec == Init /\ [][Next]_vars

\* a placement draw that is accepted
SampleAccepted == \E c \in Cells : Sample(c) /\ ~too_close'

\* a repair draw that is accepted and gives the moved node a neighbour
DemandGains == \E c \in Cells : RepairDemandDraw(c) /\ G' # G

LocationGains == \E c \in Cells : RepairLocationDraw(c) /\ G' # G

\* The program keeps running, and the draws are independent and uniform: a
\* kind of outcome that is possible again and again does come up.
FairSpec ==
  /\ Spec
  /\ WF_vars(Next)
  /\ SF_vars(SampleAccepted)
  /\ SF_vars(DemandGains)
  /\ SF_vars(LocationGains)

\* ---- properties ------------------------------------------------------------

Nodes == 0 .. total_nodes - 1

\* the graph exists: the repair phase has started
GraphBuilt == pc \in {"repair_dem", "repair_loc", "assign", "done"}

\* both repair passes are over
Repaired ==
  \/ pc = "repair_loc" /\ loc_idx = locations
  \/ pc \in {"assign", "done"}

\* the last draw was accepted and moved node n
JustRelocated(n) ==
  /\ ~too_close
  /\ n \in DOMAIN coords
  /\ new_coord = coords[n]

ServiceIds == {records[i][1] : i \in 1 .. Len(records)}

\* C1: once both repair passes are over, every location and every demand
\* point has degree >= 1.
C1_NoIsolatedNode ==
  Repaired => \A n \in Nodes : Degree(G, n) >= 1

\* a location was relocated by the second pass, which is now over
C1_Witness ==
  /\ pc = "repair_loc"
  /\ loc_idx = locations
  /\ \E l \in Locs : JustRelocated(l)
  /\ \A n \in Nodes : Degree(G, n) >= 1

\* C2: in a completed run the service ids of the records are exactly
\* 0 .. services-1.
C2_ServiceIdsExact ==
  pc = "done" => ServiceIds = 0 .. services - 1

\* a completed run in which a drawn id (0, not the last id handed out in turn)
\* was used for the last demand point
C2_Witness ==
  /\ pc = "done"
  /\ services = 2
  /\ random_pick
  /\ \E i \in 1 .. Len(records) :
       records[i][3] = points - 1 /\ records[i][1] = 0
  /\ ServiceIds = 0 .. services - 1

\* C3: any two distinct placed nodes are at distance >= minimum_distance,
\* after the initial placement and after every relocation.
C3_MinimumSeparation ==
  \A i, j \in DOMAIN coords :
    i # j => ~CloserThanMinimum(coords[i], coords[j])

\* the first demand point was just relocated by the repair
C3_Witness ==
  /\ pc = "repair_dem"
  /\ points >= 2
  /\ dem_idx = locations
  /\ JustRelocated(dem_idx)
  /\ \E c \in Cells : TooCloseToSome(c)

\* C4: from the start of the repair phase on, every edge joins a location
\* and a demand point.
C4_Bipartite ==
  GraphBuilt => \A e \in Edges(G) : \E l \in Locs, d \in Dems : e = {l, d}

\* a completed run in which two demand points and two locations were in range
\* of each other when the graph was built from the final positions
C4_Witness ==
  /\ pc = "done"
  /\ Edges(G) # {}
  /\ \E d1, d2 \in Dems : d1 # d2 /\ InRange(coords[d1], coords[d2])
  /\ \E l1, l2 \in Locs : l1 # l2 /\ InRange(coords[l1], coords[l2])

\* C5: a run with services > points ends as a failure, with nothing sampled,
\* built, emitted or written.
C5_ConfigErrorReported ==
  pc = "exited" =>
    /\ exit_status # <<0>>
    /\ coords = <<>>
    /\ new_coord = NoCoord
    /\ G = <<>>
    /\ records = <<>>
    /\ ~written

\* C6: every run ends (the loops are capped and end the run when the cap is
\* exceeded).
C6_Terminates == <>(pc \in {"done", "exited"})

\* C7: the output has one row per edge of the repaired graph: one record
\* (service, l, d - locations) per edge {l, d}, no pair twice, and the cost
\* columns add no row.
C7_RowsAreEdges ==
  pc = "done" =>
    /\ final_rows = Cardinality(Edges(G))
    /\ Len(sorted_data) = Cardinality(Edges(G))
    /\ Len(records) = Cardinality(Edges(G))
    /\ {<<records[i][2], records[i][3]>> : i \in 1 .. Len(records)}
         = {<<l, d - locations>> : <<l, d>> \in {p \in Locs \X Dems : {p[1], p[2]} \in Edges(G)}}
    /\ \A i \in 1 .. Len(records) :
         records[i][2] \in Locs /\ records[i][3] \in 0 .. points - 1

\* a completed run with exactly as many edges as the opening-cost column has
\* rows: one edge fewer and the column would add a row
C7_Witness ==
  /\ pc = "done"
  /\ locations >= 2
  /\ Cardinality(Edges(G)) = locations
  /\ final_rows = locations

\* C8: walking the demand points in ascending order, the k-th one gets id k
\* for k < services, and for k >= services an id drawn by np.random.randint
\* (with a single service the only id is 0, drawn or not).
C8_RoundRobinThenRandom ==
  (pc = "assign" /\ dem_idx < total_nodes) =>
    LET k == dem_idx - locations
    IN  /\ k < services => (service_requested = k /\ ~random_pick)
        /\ (k >= services /\ services >= 2) => random_pick

\* C9: two records of the same demand point carry the same service id, and
\* in a completed run every demand point has a record.
C9_OneServicePerPoint ==
  /\ \A i, j \in 1 .. Len(records) :
       records[i][3] = records[j][3] => records[i][1] = records[j][1]
  /\ pc = "done" =>
       \A p \in 0 .. points - 1 : \E i \in 1 .. Len(records) : records[i][3] = p

\* a completed run with two services in which a demand point has two records
C9_Witness ==
  /\ pc = "done"
  /\ services >= 2
  /\ \E i, j \in 1 .. Len(records) :
       i # j /\ records[i][3] = records[j][3]

\* C10: the graph agrees with the geometry: {l, d} is an edge iff l and d
\* are within service_range, at the start of the repair and after every
\* relocation.
C10_EdgesMatchGeometry ==
  GraphBuilt =>
    \A l \in Locs, d \in Dems :
      {l, d} \in Edges(G) <=> InRange(coords[l], coords[d])

\* the first demand point was just relocated into the range of two locations,
\* with another pair out of range
C10_Witness ==
  /\ pc = "repair_dem"
  /\ points >= 2
  /\ dem_idx = locations
  /\ JustRelocated(dem_idx)
  /\ Degree(G, dem_idx) >= 2
  /\ \E l \in Locs, d \in Dems : ~InRange(coords[l], coords[d])

====
